---- MODULE Spec2Model ----
(***************************************************************************)
(* A model of space_aces_bot: the shared GameState, the decision modules   *)
(* (BasicSafety, BasicFarm, BasicCombat, SimpleNavigation), the perception *)
(* update of TemplateVision and the decision loop of app/bot.py:main.      *)
(*                                                                         *)
(* Coordinates, distances and thresholds are integers in units of 1/1000   *)
(* (0.35 is 350).  Euclidean distances are compared through their squares. *)
(* An Optional id is the id or None; an Optional Position is a sequence of *)
(* length at most one; a BotAction is a record and "no action" is NoAction.*)
(***************************************************************************)
EXTENDS Integers, Sequences, FiniteSets, TLC

VARIABLES
    cfg,            \* configuration values read by main and the module constructors
    state,          \* the GameState object
    safety,         \* BasicSafety: last_position, stationary_ticks
    navigation,     \* SimpleNavigation: destination, current_index, ticks_since_last_move, mode
    pc,             \* position of main (or of the call sequence of a module specification)
    boot,           \* what the bootstrap found and did: driver capabilities, login, enter_game
    iter,           \* number of loop iterations started (the for loop's progress)
    clock,          \* last reading of time.time() - start_time
    stop_reason,    \* the local stop_reason of main; Unbound before its assignment
    danger_level,   \* the value safety.assess returned to the loop in this tick
    action,         \* the action a module returned, waiting for driver.execute
    source,         \* the module that returned it
    invoked,        \* the modules called in the current iteration, in call order
    dispatched,     \* the sources of the driver.execute calls of the current iteration
    exc,            \* the exception propagating out of the try block, or NoExc
    report,         \* what the final log line of main reported, or NoReport
    frame,          \* what the perception update that has just returned observed,
                    \* NoFrame when it completed no observation or another call followed
    selected_at,    \* the loop iteration in which Farm selected the target held and
                    \* listed in npcs ever since, 0 when there is no such target
    pre             \* the object the last module call made on its own was given, as it
                    \* was before the call (a GameState, for Navigation the instance)

vars == <<cfg, state, safety, navigation, pc, boot, iter, clock, stop_reason,
          danger_level, action, source, invoked, dispatched, exc, report, frame,
          selected_at, pre>>

-----------------------------------------------------------------------------
(* Bounds of the model *)

\* largest runtime.max_ticks a run is configured with
MaxTicks == 3
\* largest wall-clock reading (in whole time units) the clock reaches
MaxClock == 3
\* largest runtime.max_seconds a run is configured with
MaxSeconds == 2
\* largest tick_counter a sequence of module calls made on their own reaches
MaxCallTicks == 4
\* largest ticks_since_last_move a sequence of Navigation calls reaches (in escape
\* mode the counter grows with every tick)
MaxEscapeTicks == 12

-----------------------------------------------------------------------------
(* Program constants *)

EDGE_WARN_THRESHOLD == 800
EDGE_DANGER_THRESHOLD == 1200
STATIONARY_EPSILON == 1
STATIONARY_TICKS_WARN == 50
STATIONARY_TICKS_ESCAPE == 100
ESCAPE_DANGER_THRESHOLD == 70
MOVE_EVERY_N_TICKS == 10
DEFAULT_MAX_TARGET_DISTANCE == 200
DEFAULT_DISENGAGE_DISTANCE == 350
DEFAULT_MAX_TARGET_TICKS == 60

None == "None"
Unbound == "<unbound>"
NoExc == "none"

-----------------------------------------------------------------------------
(* core/game_state.py, core/actions.py *)

Position(x, y) == [x |-> x, y |-> y]

Ship(pos, hp, max_hp) ==
    [id |-> "player-1", position |-> pos, hp |-> hp, max_hp |-> max_hp,
     shield |-> 50, max_shield |-> 50]

Npc(id, pos, npc_type) ==
    [id |-> id, position |-> pos, hp |-> 100, max_hp |-> 100, npc_type |-> npc_type]

Resource(id, pos, kind) ==
    [id |-> id, position |-> pos, resource_type |-> kind, value |-> 0, kind |-> kind]

\* GameState(ship=ship, current_map="1-1"): the dataclass defaults
GameState(ship) ==
    [ship |-> ship, current_map |-> "1-1", tick_counter |-> 0,
     current_target_id |-> None, in_combat |-> FALSE,
     ticks_with_current_target |-> 0, npcs |-> <<>>, resources |-> <<>>,
     enemies |-> <<>>, portals |-> <<>>, last_target_id |-> None]

NoAction == [type |-> "NONE"]

BotAction(type, target_id, meta) ==
    [type |-> type, target_id |-> target_id, position |-> <<>>, meta |-> meta]

\* the keys of a dict kept as a sequence of entries in insertion order
Ids(entries) == {entries[k].id : k \in DOMAIN entries}

Lookup(entries, id) == entries[CHOOSE k \in DOMAIN entries : entries[k].id = id]

\* a lookup that falls back to the first NPC when the id is unknown
get_current_target_or_first(gs) ==
    IF gs.current_target_id = None THEN <<>>
    ELSE IF gs.current_target_id \in Ids(gs.npcs)
         THEN <<Lookup(gs.npcs, gs.current_target_id)>>
         ELSE IF gs.npcs # <<>> THEN <<gs.npcs[1]>> ELSE <<>>

get_current_target(gs) ==
    IF gs.current_target_id = None THEN <<>>
    ELSE IF gs.current_target_id \in Ids(gs.npcs)
         THEN <<Lookup(gs.npcs, gs.current_target_id)>>
         ELSE <<>>

advance_tick(gs) ==
    LET t == [gs EXCEPT !.tick_counter = @ + 1]
        current_id == gs.current_target_id
    IN  IF current_id = None
        THEN [t EXCEPT !.ticks_with_current_target = 0, !.last_target_id = None]
        ELSE IF current_id \notin Ids(gs.npcs)
        THEN [t EXCEPT !.ticks_with_current_target = 0, !.last_target_id = None]
        ELSE [t EXCEPT !.ticks_with_current_target =
                            (IF gs.last_target_id # current_id THEN 0 ELSE @) + 1,
                       !.last_target_id = current_id]

Abs(n) == IF n < 0 THEN -n ELSE n

Dist2(p, q) == (p.x - q.x) * (p.x - q.x) + (p.y - q.y) * (p.y - q.y)

RECURSIVE SqrtIn(_, _, _)
SqrtIn(n, lo, hi) ==
    IF lo >= hi THEN lo
    ELSE LET mid == (lo + hi + 1) \div 2
         IN  IF mid * mid <= n THEN SqrtIn(n, mid, hi) ELSE SqrtIn(n, lo, mid - 1)

\* ** 0.5 on the model's grid: the integer square root, searched below 46341,
\* whose square is the first to exceed 32 bits
Sqrt(n) == SqrtIn(n, 0, IF n < 46340 THEN n ELSE 46340)

-----------------------------------------------------------------------------
(* modules/safety.py *)

BasicSafety == [last_position |-> <<>>, stationary_ticks |-> 0]

\* an HP heuristic whose thresholds are exclusive
HpDanger_below(ship) ==
    IF ship.max_hp > 0
    THEN IF 10 * ship.hp < 3 * ship.max_hp THEN 60
         ELSE IF 10 * ship.hp < 6 * ship.max_hp THEN 30 ELSE 0
    ELSE 0

\* hp_ratio <= 0.3 -> 60, <= 0.6 -> 30; nothing when max_hp <= 0
HpDanger(ship) ==
    IF ship.max_hp > 0
    THEN IF 10 * ship.hp <= 3 * ship.max_hp THEN 60
         ELSE IF 10 * ship.hp <= 6 * ship.max_hp THEN 30 ELSE 0
    ELSE 0

EdgeDanger(pos) ==
    IF Abs(pos.x) >= EDGE_DANGER_THRESHOLD \/ Abs(pos.y) >= EDGE_DANGER_THRESHOLD THEN 40
    ELSE IF Abs(pos.x) >= EDGE_WARN_THRESHOLD \/ Abs(pos.y) >= EDGE_WARN_THRESHOLD THEN 20
    ELSE 0

\* a streak that a move of exactly epsilon breaks
StationaryTicks_within(s, pos) ==
    IF s.last_position # <<>>
    THEN IF Dist2(pos, s.last_position[1]) < STATIONARY_EPSILON * STATIONARY_EPSILON
         THEN s.stationary_ticks + 1
         ELSE 0
    ELSE 0

\* the streak after one more assessment at pos
StationaryTicks(s, pos) ==
    IF s.last_position # <<>>
    THEN IF Dist2(pos, s.last_position[1]) <= STATIONARY_EPSILON * STATIONARY_EPSILON
         THEN s.stationary_ticks + 1
         ELSE 0
    ELSE 0

\* a stationary heuristic that alone reaches the escape threshold
StationaryDanger_alarming(ticks) ==
    IF ticks >= STATIONARY_TICKS_ESCAPE THEN ESCAPE_DANGER_THRESHOLD
    ELSE IF ticks >= STATIONARY_TICKS_WARN THEN 20
    ELSE 0

StationaryDanger(ticks) ==
    IF ticks >= STATIONARY_TICKS_ESCAPE THEN 40
    ELSE IF ticks >= STATIONARY_TICKS_WARN THEN 20
    ELSE 0

Clamp(lo, hi, n) == IF n < lo THEN lo ELSE IF n > hi THEN hi ELSE n

\* BasicSafety.assess: the score, and the instance after the call
assess(s, gs) ==
    LET pos == gs.ship.position
        ticks == StationaryTicks(s, pos)
    IN  [safety |-> [last_position |-> <<pos>>, stationary_ticks |-> ticks],
         danger |-> Clamp(0, 100, HpDanger(gs.ship) + EdgeDanger(pos) + StationaryDanger(ticks))]

\* a decide that scores the streak as assess left it, without a second assessment
safety_decide_keeps_streak(s, gs) ==
    LET danger == Clamp(0, 100, HpDanger(gs.ship) + EdgeDanger(gs.ship.position)
                                   + StationaryDanger(s.stationary_ticks))
    IN  [safety |-> s,
         action |-> IF danger < ESCAPE_DANGER_THRESHOLD
                    THEN NoAction
                    ELSE BotAction("MOVE", None,
                                   [rel_x |-> 500, rel_y |-> 500, escape |-> TRUE,
                                    danger |-> danger, reason |-> "basic_safety_escape"])]

\* BasicSafety.decide: calls assess again, and compares its score with the threshold
safety_decide(s, gs) ==
    LET a == assess(s, gs)
    IN  [safety |-> a.safety,
         action |-> IF a.danger < ESCAPE_DANGER_THRESHOLD
                    THEN NoAction
                    ELSE BotAction("MOVE", None,
                                   [rel_x |-> 500, rel_y |-> 500, escape |-> TRUE,
                                    danger |-> a.danger, reason |-> "basic_safety_escape"])]

-----------------------------------------------------------------------------
(* modules/farm.py *)

\* the first index that holds the smallest key: what a stable sort puts first
FirstMin(keys) ==
    CHOOSE k \in DOMAIN keys :
        \A j \in DOMAIN keys : keys[k] < keys[j] \/ (keys[k] = keys[j] /\ k <= j)

\* a selection without the sort
select_first_resource(gs) == gs.resources[1]

\* resources.sort(key=distance); resources[0]
select_nearest_resource(gs) ==
    gs.resources[FirstMin([k \in DOMAIN gs.resources |->
                              Dist2(gs.ship.position, gs.resources[k].position)])]

\* list.index (from 0), or len(list) when the type is absent
sort_key(priority, npc_type) ==
    IF \E k \in DOMAIN priority : priority[k] = npc_type
    THEN (CHOOSE k \in DOMAIN priority :
            priority[k] = npc_type /\ \A j \in 1..(k - 1) : priority[j] # npc_type) - 1
    ELSE Len(priority)

\* a selection that ignores the priority list
select_target_first(c, gs) == gs.npcs[1]

select_target(c, gs) ==
    IF c.npc_priority = <<>>
    THEN gs.npcs[1]
    ELSE gs.npcs[FirstMin([k \in DOMAIN gs.npcs |->
                              sort_key(c.npc_priority, gs.npcs[k].npc_type)])]

\* a check that lets go of a target that is no longer in npcs
target_still_listed(gs) == get_current_target(gs) # <<>>

\* state.current_target_id is not None: the target is kept, Combat decides
target_held(gs) == gs.current_target_id # None

\* a selection that keeps the per-target counter of the previous target
SelectedKeepsCounter(gs, target) ==
    [gs EXCEPT !.current_target_id = target.id, !.in_combat = TRUE]

\* the three assignments that make target the current target
Selected(gs, target) ==
    [gs EXCEPT !.current_target_id = target.id, !.in_combat = TRUE,
               !.ticks_with_current_target = 0]

\* a Farm that leaves a held target to Combat before it looks for boxes
farm_decide_target_first(c, gs) ==
    IF c.hunt_npcs /\ target_held(gs) THEN [state |-> gs, action |-> NoAction]
    ELSE IF c.collect_boxes /\ gs.resources # <<>>
    THEN LET resource == select_nearest_resource(gs)
         IN  [state |-> gs,
              action |-> BotAction("MOVE", None,
                           [rel_x |-> resource.position.x, rel_y |-> resource.position.y,
                            target_resource_id |-> resource.id,
                            target_resource_kind |-> resource.kind])]
    ELSE IF ~c.hunt_npcs THEN [state |-> gs, action |-> NoAction]
    ELSE IF gs.npcs = <<>> THEN [state |-> gs, action |-> NoAction]
    ELSE [state |-> Selected(gs, select_target(c, gs)), action |-> NoAction]

\* BasicFarm.decide: the action, and the GameState after the call
farm_decide(c, gs) ==
    IF c.collect_boxes /\ gs.resources # <<>>
    THEN LET resource == select_nearest_resource(gs)
         IN  [state |-> gs,
              action |-> BotAction("MOVE", None,
                           [rel_x |-> resource.position.x, rel_y |-> resource.position.y,
                            target_resource_id |-> resource.id,
                            target_resource_kind |-> resource.kind])]
    ELSE IF ~c.hunt_npcs THEN [state |-> gs, action |-> NoAction]
    ELSE IF target_held(gs) THEN [state |-> gs, action |-> NoAction]
    ELSE IF gs.npcs = <<>> THEN [state |-> gs, action |-> NoAction]
    ELSE [state |-> Selected(gs, select_target(c, gs)), action |-> NoAction]

-----------------------------------------------------------------------------
(* modules/combat.py *)

\* a clearing that moves on to the first NPC of npcs
ClearedToFirstNpc(gs) ==
    [gs EXCEPT !.current_target_id = IF gs.npcs # <<>> THEN gs.npcs[1].id ELSE None,
               !.in_combat = FALSE, !.ticks_with_current_target = 0]

\* a clearing that keeps the per-target counter
ClearedKeepsCounter(gs) ==
    [gs EXCEPT !.current_target_id = None, !.in_combat = FALSE]

\* a clearing that leaves the combat flag alone
ClearedStillInCombat(gs) ==
    [gs EXCEPT !.current_target_id = None, !.ticks_with_current_target = 0]

\* a clearing that also drops the shield of the ship
ClearedAndUnshielded(gs) ==
    [gs EXCEPT !.current_target_id = None, !.in_combat = FALSE,
               !.ticks_with_current_target = 0, !.ship.shield = 0]

Cleared(gs) ==
    [gs EXCEPT !.current_target_id = None, !.in_combat = FALSE,
               !.ticks_with_current_target = 0]

\* a disabled Combat that also drops the target
OutOfCombatAndTarget(gs) == ClearedKeepsCounter(gs)

\* state.in_combat = False, the only assignment of a disabled Combat
OutOfCombat(gs) == [gs EXCEPT !.in_combat = FALSE]

\* a comparison that takes the limit itself as out of range
reaches(d2, limit) == limit < 0 \/ d2 >= limit * limit

\* distance > limit for a distance given by its square d2 (a distance is never
\* below 0, so it exceeds every negative limit)
exceeds(d2, limit) == limit < 0 \/ d2 > limit * limit

\* a direction computed from the ship's side: it points away from the target
QuotientAway(d, distance) ==
    IF d >= 0 THEN -((d * 1000) \div distance) ELSE ((-d) * 1000) \div distance

\* dx / distance in units of 1/1000, rounded towards zero
Quotient(d, distance) ==
    IF d >= 0 THEN (d * 1000) \div distance ELSE -(((-d) * 1000) \div distance)

\* a disengage rule that looks at the tick limit only
disengage_on_ticks_only(c, d2, ticks) ==
    c.max_target_ticks > 0 /\ ticks >= c.max_target_ticks

\* a tick limit without the "0 = unlimited" guard
disengage_at_zero(c, d2, ticks) ==
    \/ d2 >= c.disengage_distance * c.disengage_distance
    \/ ticks >= c.max_target_ticks

\* distance >= disengage_distance or (max_target_ticks > 0 and ticks >= max_target_ticks)
disengage(c, d2, ticks) ==
    \/ d2 >= c.disengage_distance * c.disengage_distance
    \/ (c.max_target_ticks > 0 /\ ticks >= c.max_target_ticks)

\* BasicCombat.decide: the action, and the GameState after the call
combat_decide(c, gs) ==
    IF ~c.combat_enabled
    THEN [state |-> OutOfCombat(gs), action |-> NoAction]
    ELSE IF gs.current_target_id = None
    THEN [state |-> [gs EXCEPT !.in_combat = FALSE, !.ticks_with_current_target = 0],
          action |-> NoAction]
    ELSE IF get_current_target(gs) = <<>>
    THEN [state |-> Cleared(gs), action |-> NoAction]
    ELSE LET target == get_current_target(gs)[1]
             dx == target.position.x - gs.ship.position.x
             dy == target.position.y - gs.ship.position.y
             d2 == dx * dx + dy * dy
             ticks == gs.ticks_with_current_target
         IN  IF disengage(c, d2, ticks)
             THEN [state |-> Cleared(gs), action |-> NoAction]
             ELSE IF exceeds(d2, c.max_target_distance)
             THEN [state |-> [gs EXCEPT !.in_combat = TRUE],
                   action |-> BotAction("MOVE", gs.current_target_id,
                                [rel_x |-> IF d2 > 0 THEN Quotient(dx, Sqrt(d2)) ELSE 0,
                                 rel_y |-> IF d2 > 0 THEN Quotient(dy, Sqrt(d2)) ELSE 0,
                                 reason |-> "basic_combat_approach"])]
             ELSE [state |-> [gs EXCEPT !.in_combat = TRUE],
                   action |-> BotAction("ATTACK", gs.current_target_id,
                                [reason |-> "basic_combat_attack"])]

-----------------------------------------------------------------------------
(* modules/navigation.py *)

patrol_points == <<Position(200, 200), Position(800, 200),
                   Position(800, 800), Position(200, 800)>>

SimpleNavigation ==
    [destination |-> <<>>, current_index |-> 0, ticks_since_last_move |-> 0,
     mode |-> "patrol"]

set_destination(nav, position) == [nav EXCEPT !.destination = <<position>>]

\* a switch that sets the mode and leaves the counter
enter_escape_mode_keeps_counter(nav) == [nav EXCEPT !.mode = "escape"]

\* a switch that resets the counter and leaves the mode
enter_escape_mode_keeps_mode(nav) == [nav EXCEPT !.ticks_since_last_move = 0]

enter_escape_mode(nav) == [nav EXCEPT !.mode = "escape", !.ticks_since_last_move = 0]

\* a switch that resets the counter also when the mode is patrol already
enter_patrol_mode_resets(nav) == [nav EXCEPT !.mode = "patrol", !.ticks_since_last_move = 0]

enter_patrol_mode(nav) ==
    IF nav.mode # "patrol"
    THEN [nav EXCEPT !.mode = "patrol", !.ticks_since_last_move = 0]
    ELSE nav

\* the values random.uniform(-0.05, 0.05) is drawn from in the model
Jitter == {-50, 0, 50}

\* a tick that paces the escape moves like the patrol moves
navigation_tick_paced(nav, dx, dy) ==
    LET n == [nav EXCEPT !.ticks_since_last_move = @ + 1]
    IN  IF n.ticks_since_last_move < MOVE_EVERY_N_TICKS
        THEN [navigation |-> n, action |-> NoAction]
        ELSE IF n.mode = "escape"
        THEN [navigation |-> [n EXCEPT !.ticks_since_last_move = 0],
              action |-> BotAction("MOVE", None,
                                   [rel_x |-> 500, rel_y |-> 500, escape |-> TRUE])]
        ELSE LET base == patrol_points[n.current_index + 1]
                 next == (n.current_index + 1) % Len(patrol_points)
             IN  [navigation |-> [n EXCEPT !.ticks_since_last_move = 0,
                                           !.current_index = next],
                  action |-> BotAction("MOVE", None,
                               [rel_x |-> Clamp(50, 950, base.x + dx),
                                rel_y |-> Clamp(50, 950, base.y + dy),
                                waypoint_index |-> next])]

\* a tick that advances the waypoint index before it reads the waypoint
navigation_tick_skips_ahead(nav, dx, dy) ==
    LET n == [nav EXCEPT !.ticks_since_last_move = @ + 1]
    IN  IF n.mode = "escape"
        THEN [navigation |-> n,
              action |-> BotAction("MOVE", None,
                                   [rel_x |-> 500, rel_y |-> 500, escape |-> TRUE])]
        ELSE IF n.ticks_since_last_move < MOVE_EVERY_N_TICKS
        THEN [navigation |-> n, action |-> NoAction]
        ELSE LET next == (n.current_index + 1) % Len(patrol_points)
                 base == patrol_points[next + 1]
             IN  [navigation |-> [n EXCEPT !.ticks_since_last_move = 0,
                                           !.current_index = next],
                  action |-> BotAction("MOVE", None,
                               [rel_x |-> Clamp(50, 950, base.x + dx),
                                rel_y |-> Clamp(50, 950, base.y + dy),
                                waypoint_index |-> next])]

\* SimpleNavigation.tick with the two random offsets dx, dy
navigation_tick(nav, dx, dy) ==
    LET n == [nav EXCEPT !.ticks_since_last_move = @ + 1]
    IN  IF n.mode = "escape"
        THEN [navigation |-> n,
              action |-> BotAction("MOVE", None,
                                   [rel_x |-> 500, rel_y |-> 500, escape |-> TRUE])]
        ELSE IF n.mode = "patrol"
        THEN IF n.ticks_since_last_move < MOVE_EVERY_N_TICKS
             THEN [navigation |-> n, action |-> NoAction]
             ELSE LET base == patrol_points[n.current_index + 1]
                      next == (n.current_index + 1) % Len(patrol_points)
                  IN  [navigation |-> [n EXCEPT !.ticks_since_last_move = 0,
                                                !.current_index = next],
                       action |-> BotAction("MOVE", None,
                                    [rel_x |-> Clamp(50, 950, base.x + dx),
                                     rel_y |-> Clamp(50, 950, base.y + dy),
                                     waypoint_index |-> next])]
        ELSE [navigation |-> n, action |-> NoAction]

-----------------------------------------------------------------------------
(* modules/vision.py *)

\* what one screen capture can show.  Template matching names its detections
\* <prefix>-<kind>-<count>, weak_npc before medium_npc, boxes before NPCs.
NpcFrames ==
    {<<>>,
     <<Npc("npc-weak_npc-1", Position(100, 0), "weak_npc")>>,
     <<Npc("npc-weak_npc-1", Position(300, 0), "weak_npc"),
       Npc("npc-medium_npc-1", Position(100, 0), "medium_npc")>>,
     <<Npc("npc-weak_npc-1", Position(400, 300), "weak_npc"),
       Npc("npc-medium_npc-1", Position(100, 0), "medium_npc")>>,
     <<Npc("npc-medium_npc-1", Position(400, 300), "medium_npc")>>}

ResourceFrames ==
    {<<>>, <<Resource("res-bonus_box-1", Position(500, 500), "bonus_box")>>}

Frames == [npcs : NpcFrames, resources : ResourceFrames]

\* update_state returned before the template matching
NoFrame == [npcs |-> None, resources |-> None]

\* TemplateVision.update_state when a frame is matched: resources are replaced,
\* NPCs are replaced when at least one was detected
update_state(gs, seen) ==
    LET t == advance_tick(gs)
    IN  [t EXCEPT !.resources = seen.resources,
                  !.npcs = IF seen.npcs # <<>> THEN seen.npcs ELSE @]

-----------------------------------------------------------------------------
(* app/bot.py: main *)

NoReport == [reason |-> Unbound]

Boot0 == [login |-> "?", enter_game |-> "?", stop |-> "?"]

\* the ships a run starts with: the one main builds, and a damaged one near the edge
Ships == {Ship(Position(0, 0), 100, 100), Ship(Position(900, 0), 20, 100)}

\* the configurations of short runs, with every combination of the module switches
Configs ==
    [max_ticks : 0..MaxTicks, max_seconds : {0, MaxSeconds},
     collect_boxes : BOOLEAN, hunt_npcs : BOOLEAN, combat_enabled : BOOLEAN,
     npc_priority : {<<"weak_npc", "medium_npc">>},
     max_target_distance : {DEFAULT_MAX_TARGET_DISTANCE},
     disengage_distance : {DEFAULT_DISENGAGE_DISTANCE},
     max_target_ticks : {DEFAULT_MAX_TARGET_TICKS}]

\* one run long enough for the patrol interval of SimpleNavigation to elapse
LongRun ==
    [max_ticks |-> MOVE_EVERY_N_TICKS, max_seconds |-> 0,
     collect_boxes |-> FALSE, hunt_npcs |-> TRUE, combat_enabled |-> TRUE,
     npc_priority |-> <<"weak_npc", "medium_npc">>,
     max_target_distance |-> DEFAULT_MAX_TARGET_DISTANCE,
     disengage_distance |-> DEFAULT_DISENGAGE_DISTANCE,
     max_target_ticks |-> DEFAULT_MAX_TARGET_TICKS]

\* the locals of main and the bookkeeping of the model, before the try block
MainLocals ==
    /\ boot = Boot0
    /\ iter = 0
    /\ clock = 0
    /\ stop_reason = Unbound
    /\ danger_level = 0
    /\ action = NoAction
    /\ source = "none"
    /\ invoked = <<>>
    /\ dispatched = <<>>
    /\ exc = NoExc
    /\ report = NoReport
    /\ pre = state
    /\ selected_at = 0
    /\ frame = NoFrame

\* the ticks after which Safety, which assesses twice per tick, has seen a ship
\* at rest for STATIONARY_TICKS_WARN assessments, and one tick more
StreakRunTicks == STATIONARY_TICKS_WARN \div 2 + 2

\* one run of a damaged ship at rest, long enough for its streak to raise the
\* danger over the escape threshold, with Farm and Combat switched off
StreakRun ==
    [LongRun EXCEPT !.max_ticks = StreakRunTicks, !.hunt_npcs = FALSE,
                    !.combat_enabled = FALSE]

\* the same for STATIONARY_TICKS_ESCAPE assessments
LongStreakRunTicks == STATIONARY_TICKS_ESCAPE \div 2 + 2

\* one run of the ship main builds, long enough for its streak to score in full
LongStreakRun == [StreakRun EXCEPT !.max_ticks = LongStreakRunTicks]

Init ==
    /\ \/ /\ cfg \in Configs \cup {LongRun}
          /\ state \in {GameState(ship) : ship \in Ships}
       \/ /\ cfg = StreakRun
          /\ state = GameState(Ship(Position(0, 0), 20, 100))
       \/ /\ cfg = LongStreakRun
          /\ state = GameState(Ship(Position(0, 0), 100, 100))
    /\ safety = BasicSafety
    /\ navigation = SimpleNavigation
    /\ pc = "start"
    /\ MainLocals

\* driver.start(), when the driver has it; an exception of it is logged and dropped
DriverStart ==
    /\ pc = "start"
    /\ \E has_start \in BOOLEAN, raised \in BOOLEAN : pc' = "login"
    /\ UNCHANGED <<pre, frame, selected_at, cfg, state, safety, navigation, boot, iter, clock, stop_reason,
                   danger_level, action, source, invoked, dispatched, exc, report>>

\* a login step whose failed result does not return
AfterLoginIgnoresFailure(outcome) ==
    IF outcome \in {"unsupported", "ok", "false", "raised"} THEN "enter_game" ELSE "finally"

\* where main goes after the login step
AfterLogin(outcome) == IF outcome \in {"unsupported", "ok"} THEN "enter_game" ELSE "finally"

Login ==
    /\ pc = "login"
    /\ \E has_login \in BOOLEAN, credentials \in BOOLEAN, result \in {"ok", "false", "raised"} :
          LET outcome == IF ~has_login THEN "unsupported"
                         ELSE IF ~credentials THEN "no_credentials"
                         ELSE result
          IN  /\ boot' = [boot EXCEPT !.login = outcome]
              /\ pc' = AfterLogin(outcome)
    /\ UNCHANGED <<pre, frame, selected_at, cfg, state, safety, navigation, iter, clock, stop_reason,
                   danger_level, action, source, invoked, dispatched, exc, report>>

\* login_performed is set once driver.login has returned
login_performed == boot.login \in {"ok", "false"}

\* an enter_game step whose failed result does not return
AfterEnterGameIgnoresFailure(outcome) ==
    IF outcome \in {"unsupported", "skipped", "ok", "false"} THEN "loop_init" ELSE "finally"

\* where main goes after the enter_game step
AfterEnterGame(outcome) ==
    IF outcome \in {"unsupported", "skipped", "ok"} THEN "loop_init" ELSE "finally"

EnterGame ==
    /\ pc = "enter_game"
    /\ \E has_enter_game \in BOOLEAN, result \in {"ok", "false", "raised"} :
          LET outcome == IF ~has_enter_game THEN "unsupported"
                         ELSE IF ~login_performed THEN "skipped"
                         ELSE result
          IN  /\ boot' = [boot EXCEPT !.enter_game = outcome]
              /\ pc' = AfterEnterGame(outcome)
    /\ UNCHANGED <<pre, frame, selected_at, cfg, state, safety, navigation, iter, clock, stop_reason,
                   danger_level, action, source, invoked, dispatched, exc, report>>

LoopInit ==
    /\ pc = "loop_init"
    /\ stop_reason' = "normal"
    /\ clock' = 0
    /\ pc' = "loop_head"
    /\ UNCHANGED <<pre, frame, selected_at, cfg, state, safety, navigation, boot, iter,
                   danger_level, action, source, invoked, dispatched, exc, report>>

Min(a, b) == IF a < b THEN a ELSE b

\* a time check that lets one more iteration start
TimeIsUpLate(now) == cfg.max_seconds > 0 /\ now > cfg.max_seconds

\* the time check at the head of an iteration
TimeIsUp(now) == cfg.max_seconds > 0 /\ now >= cfg.max_seconds

\* for _ in range(max_ticks): ... else: ...  The clock is read once per iteration;
\* iter counts the iterations that got past the time check.
LoopHead ==
    /\ pc = "loop_head"
    /\ \/ /\ iter >= cfg.max_ticks
          /\ stop_reason' = "max_ticks reached"
          /\ pc' = "finally"
          /\ UNCHANGED <<iter, clock>>
       \/ /\ iter < cfg.max_ticks
          /\ \E now \in clock..Min(clock + 1, MaxClock) :
                /\ clock' = now
                /\ IF TimeIsUp(now)
                   THEN /\ stop_reason' = "max_seconds reached"
                        /\ pc' = "finally"
                        /\ iter' = iter
                   ELSE /\ stop_reason' = stop_reason
                        /\ pc' = "vision"
                        /\ iter' = iter + 1
    /\ danger_level' = 0
    /\ action' = NoAction
    /\ source' = "none"
    /\ invoked' = <<>>
    /\ dispatched' = <<>>
    /\ UNCHANGED <<pre, frame, selected_at, cfg, state, safety, navigation, boot, exc, report>>

\* an exception leaves the loop and the try block
Raise(what) ==
    /\ exc' = what
    /\ pc' = "finally"

\* vision.update_state(state): the tick bookkeeping comes first, then the
\* capture, which can be skipped (vision disabled, no frame), fail or match
Vision ==
    /\ pc = "vision"
    /\ invoked' = Append(invoked, "vision")
    /\ \/ /\ state' = advance_tick(state)
          /\ frame' = NoFrame
          /\ pc' = "assess"
          /\ exc' = exc
       \/ /\ state' = advance_tick(state)
          /\ frame' = NoFrame
          /\ Raise("vision")
       \/ /\ \E seen \in Frames : /\ state' = update_state(state, seen)
                                  /\ frame' = seen
          /\ pc' = "assess"
          /\ exc' = exc
    /\ selected_at' = IF state'.current_target_id \in Ids(state'.npcs)
                      THEN selected_at ELSE 0
    /\ UNCHANGED <<pre, cfg, safety, navigation, boot, iter, clock, stop_reason,
                   danger_level, action, source, dispatched, report>>

Assess ==
    /\ pc = "assess"
    /\ invoked' = Append(invoked, "safety.assess")
    /\ \/ /\ safety' = assess(safety, state).safety
          /\ danger_level' = assess(safety, state).danger
          /\ pc' = "safety_decide"
          /\ exc' = exc
       \/ /\ Raise("safety")
          /\ UNCHANGED <<safety, danger_level>>
    /\ frame' = NoFrame
    /\ UNCHANGED <<pre, selected_at, cfg, state, navigation, boot, iter, clock, stop_reason,
                   action, source, dispatched, report>>

\* escape_action = safety.decide(state), and the mode switch that follows it
SafetyDecide ==
    /\ pc = "safety_decide"
    /\ invoked' = Append(invoked, "safety")
    /\ \/ LET r == safety_decide(safety, state)
          IN  /\ safety' = r.safety
              /\ action' = r.action
              /\ exc' = exc
              /\ IF r.action # NoAction
                 THEN /\ navigation' = enter_escape_mode(navigation)
                      /\ source' = "safety"
                      /\ pc' = "execute"
                 ELSE /\ navigation' = enter_patrol_mode(navigation)
                      /\ source' = source
                      /\ pc' = "farm"
       \/ /\ Raise("safety")
          /\ UNCHANGED <<safety, action, navigation, source>>
    /\ UNCHANGED <<pre, frame, selected_at, cfg, state, boot, iter, clock, stop_reason,
                   danger_level, dispatched, report>>

Farm ==
    /\ pc = "farm"
    /\ invoked' = Append(invoked, "farm")
    /\ \/ LET r == farm_decide(cfg, state)
          IN  /\ state' = r.state
              /\ action' = r.action
              /\ exc' = exc
              /\ source' = IF r.action # NoAction THEN "farm" ELSE source
              /\ pc' = IF r.action # NoAction THEN "execute" ELSE "combat"
       \/ /\ Raise("farm")
          /\ UNCHANGED <<state, action, source>>
    /\ selected_at' = IF state'.current_target_id # state.current_target_id
                      THEN iter ELSE selected_at
    /\ UNCHANGED <<pre, frame, cfg, safety, navigation, boot, iter, clock, stop_reason,
                   danger_level, dispatched, report>>

Combat ==
    /\ pc = "combat"
    /\ invoked' = Append(invoked, "combat")
    /\ \/ LET r == combat_decide(cfg, state)
          IN  /\ state' = r.state
              /\ action' = r.action
              /\ exc' = exc
              /\ source' = IF r.action # NoAction THEN "combat" ELSE source
              /\ pc' = IF r.action # NoAction THEN "execute" ELSE "navigation"
       \/ /\ Raise("combat")
          /\ UNCHANGED <<state, action, source>>
    /\ UNCHANGED <<pre, frame, selected_at, cfg, safety, navigation, boot, iter, clock, stop_reason,
                   danger_level, dispatched, report>>

\* nav_action = navigation.tick(state); without an action the iteration ends
\* here with the tick bookkeeping and the sleep
Navigation ==
    /\ pc = "navigation"
    /\ invoked' = Append(invoked, "navigation")
    /\ \/ \E dx \in Jitter, dy \in Jitter :
             LET r == navigation_tick(navigation, dx, dy)
             IN  /\ navigation' = r.navigation
                 /\ action' = r.action
                 /\ exc' = exc
                 /\ IF r.action # NoAction
                    THEN /\ source' = "navigation"
                         /\ pc' = "execute"
                         /\ state' = state
                    ELSE /\ source' = source
                         /\ pc' = "loop_head"
                         /\ state' = advance_tick(state)
       \/ /\ Raise("navigation")
          /\ UNCHANGED <<state, action, navigation, source>>
    /\ UNCHANGED <<pre, frame, selected_at, cfg, safety, boot, iter, clock, stop_reason,
                   danger_level, dispatched, report>>

\* a dispatch without the continue: the modules below are asked as well
ExecuteFallsThrough ==
    /\ pc = "execute"
    /\ dispatched' = Append(dispatched, source)
    /\ \/ /\ state' = advance_tick(state)
          /\ pc' = CASE source = "safety" -> "farm"
                     [] source = "farm" -> "combat"
                     [] source = "combat" -> "navigation"
                     [] OTHER -> "loop_head"
          /\ exc' = exc
       \/ /\ Raise("driver.execute")
          /\ state' = state
    /\ UNCHANGED <<pre, frame, selected_at, cfg, safety, navigation, boot, iter, clock, stop_reason,
                   danger_level, action, source, invoked, report>>

\* driver.execute(action, state), then the tick bookkeeping, the sleep and the
\* next iteration (the three continue statements and the end of the loop body)
Execute ==
    /\ pc = "execute"
    /\ dispatched' = Append(dispatched, source)
    /\ \/ /\ state' = advance_tick(state)
          /\ pc' = "loop_head"
          /\ exc' = exc
       \/ /\ Raise("driver.execute")
          /\ state' = state
    /\ UNCHANGED <<pre, frame, selected_at, cfg, safety, navigation, boot, iter, clock, stop_reason,
                   danger_level, action, source, invoked, report>>

\* a finally block whose driver.stop() call is not guarded
FinallyReraises ==
    /\ pc = "finally"
    /\ pc' = "terminated"
    /\ \/ /\ stop_reason = Unbound
          /\ exc' = "UnboundLocalError"
          /\ UNCHANGED <<boot, report>>
       \/ /\ stop_reason # Unbound
          /\ report' = [reason |-> stop_reason, total_ticks |-> state.tick_counter]
          /\ \E has_stop \in BOOLEAN, raised \in BOOLEAN :
                /\ boot' = [boot EXCEPT !.stop = IF ~has_stop THEN "unsupported"
                                                 ELSE IF raised THEN "raised" ELSE "ok"]
                /\ exc' = IF has_stop /\ raised THEN "driver.stop" ELSE exc
    /\ UNCHANGED <<pre, frame, selected_at, cfg, state, safety, navigation, iter, clock, stop_reason,
                   danger_level, action, source, invoked, dispatched>>

\* the finally block: the closing log line reads stop_reason and
\* state.tick_counter, then driver.stop() is called when the driver has it
Finally ==
    /\ pc = "finally"
    /\ pc' = "terminated"
    /\ \/ /\ stop_reason = Unbound
          /\ exc' = "UnboundLocalError"
          /\ UNCHANGED <<boot, report>>
       \/ /\ stop_reason # Unbound
          /\ report' = [reason |-> stop_reason, total_ticks |-> state.tick_counter]
          /\ \E has_stop \in BOOLEAN, raised \in BOOLEAN :
                boot' = [boot EXCEPT !.stop = IF ~has_stop THEN "unsupported"
                                              ELSE IF raised THEN "raised" ELSE "ok"]
          /\ exc' = exc
    /\ UNCHANGED <<pre, frame, selected_at, cfg, state, safety, navigation, iter, clock, stop_reason,
                   danger_level, action, source, invoked, dispatched>>

Next ==
    \/ DriverStart
    \/ Login
    \/ EnterGame
    \/ LoopInit
    \/ LoopHead
    \/ Vision
    \/ Assess
    \/ SafetyDecide
    \/ Farm
    \/ Combat
    \/ Navigation
    \/ Execute
    \/ Finally

Spec == Init /\ [][Next]_vars

-----------------------------------------------------------------------------
(* GameState.advance_tick on its own, from any GameState *)

NpcIdsOfModel == {"npc-weak_npc-1", "npc-medium_npc-1", "npc-weak_npc-2"}

GameStates ==
    {gs \in [ship : {Ship(Position(0, 0), 100, 100)}, current_map : {"1-1"},
             tick_counter : 0..1, current_target_id : {None} \cup NpcIdsOfModel,
             in_combat : BOOLEAN, ticks_with_current_target : 0..2,
             npcs : NpcFrames, resources : {<<>>}, enemies : {<<>>}, portals : {<<>>},
             last_target_id : {None} \cup NpcIdsOfModel] :
        /\ gs.current_target_id = None => gs.ticks_with_current_target = 0
        /\ gs.last_target_id \in {None, gs.current_target_id}}

GameStateInit ==
    /\ cfg = LongRun
    /\ state \in GameStates
    /\ safety = BasicSafety
    /\ navigation = SimpleNavigation
    /\ pc = "advance_tick"
    /\ MainLocals

AdvanceTickCall ==
    /\ pc = "advance_tick"
    /\ state' = advance_tick(state)
    /\ pc' = "advanced"
    /\ UNCHANGED <<pre, frame, selected_at, cfg, safety, navigation, boot, iter, clock, stop_reason,
                   danger_level, action, source, invoked, dispatched, exc, report>>

GameStateNext == AdvanceTickCall

GameStateSpec == GameStateInit /\ [][GameStateNext]_vars

-----------------------------------------------------------------------------
(* safety.assess followed by safety.decide, as the loop calls them, from any
   ship and any memory of the BasicSafety instance *)

\* ships on both sides of every threshold of the score: hp_ratio 0.3 and 0.6, the
\* warn and danger distances on either axis and either side, and hp outside
\* 0..max_hp or without max_hp
SafetyCoordinates ==
    {0, EDGE_WARN_THRESHOLD - 1, EDGE_WARN_THRESHOLD, 900, EDGE_DANGER_THRESHOLD - 1,
     EDGE_DANGER_THRESHOLD, 1300, -EDGE_WARN_THRESHOLD, -EDGE_DANGER_THRESHOLD}

SafetyPositions ==
    {Position(x, 0) : x \in SafetyCoordinates}
        \cup {Position(0, y) : y \in SafetyCoordinates}
        \cup {Position(EDGE_WARN_THRESHOLD, -EDGE_DANGER_THRESHOLD)}

SafetyShips ==
    {Ship(pos, hp, 100) : pos \in SafetyPositions, hp \in {-10, 20, 30, 31, 50, 60, 61, 100, 120}}
        \cup {Ship(pos, hp, 0) : pos \in SafetyPositions, hp \in {0, 20}}

Streaks ==
    {0, STATIONARY_TICKS_WARN - 2, STATIONARY_TICKS_WARN - 1, STATIONARY_TICKS_WARN,
     STATIONARY_TICKS_ESCAPE - 2, STATIONARY_TICKS_ESCAPE - 1, STATIONARY_TICKS_ESCAPE}

\* before the first assessment there is no position and no streak; afterwards the
\* remembered position is where the ship was, which it may have left since
\* (as close as epsilon, just beyond it, or far away)
SafetyMemories(ship) ==
    {BasicSafety} \cup
    [last_position : {<<ship.position>>,
                      <<Position(ship.position.x + STATIONARY_EPSILON, ship.position.y)>>,
                      <<Position(ship.position.x + STATIONARY_EPSILON,
                                 ship.position.y - STATIONARY_EPSILON)>>,
                      <<Position(500, 500)>>},
     stationary_ticks : Streaks]

SafetyInit ==
    /\ cfg = LongRun
    /\ state \in {GameState(ship) : ship \in SafetyShips}
    /\ safety \in SafetyMemories(state.ship)
    /\ navigation = SimpleNavigation
    /\ pc = "assess"
    /\ boot = Boot0
    /\ iter = 1
    /\ clock = 0
    /\ stop_reason = "normal"
    /\ danger_level = 0
    /\ action = NoAction
    /\ source = "none"
    /\ invoked = <<"vision">>
    /\ dispatched = <<>>
    /\ exc = NoExc
    /\ report = NoReport
    /\ pre = state
    /\ selected_at = 0
    /\ frame = NoFrame

SafetyNext == Assess \/ SafetyDecide

SafetySpec == SafetyInit /\ [][SafetyNext]_vars

-----------------------------------------------------------------------------
(* BasicFarm.decide on its own, from any GameState and any Farm configuration *)

\* a configuration of the decision modules
ModuleConfig(collect_boxes, hunt_npcs, combat_enabled, npc_priority, max_target_ticks) ==
    [max_ticks |-> 1, max_seconds |-> 0,
     collect_boxes |-> collect_boxes, hunt_npcs |-> hunt_npcs,
     combat_enabled |-> combat_enabled, npc_priority |-> npc_priority,
     max_target_distance |-> DEFAULT_MAX_TARGET_DISTANCE,
     disengage_distance |-> DEFAULT_DISENGAGE_DISTANCE,
     max_target_ticks |-> max_target_ticks]

\* empty, both orders, a single type, a type listed twice
FarmPriorities ==
    {<<>>, <<"weak_npc", "medium_npc">>, <<"medium_npc", "weak_npc">>, <<"medium_npc">>,
     <<"weak_npc", "medium_npc", "weak_npc">>}

FarmConfigs ==
    {ModuleConfig(collect, hunt, TRUE, priority, DEFAULT_MAX_TARGET_TICKS) :
        collect \in BOOLEAN, hunt \in BOOLEAN, priority \in FarmPriorities}

\* the dict npcs in both orders of the two listed types, with types that no
\* priority list names, and with two NPCs of one type
FarmNpcLists ==
    {<<>>,
     <<Npc("npc-weak_npc-1", Position(100, 0), "weak_npc")>>,
     <<Npc("npc-weak_npc-1", Position(300, 0), "weak_npc"),
       Npc("npc-medium_npc-1", Position(100, 0), "medium_npc")>>,
     <<Npc("npc-medium_npc-1", Position(100, 0), "medium_npc"),
       Npc("npc-weak_npc-1", Position(300, 0), "weak_npc")>>,
     <<Npc("npc-strong_npc-1", Position(100, 0), "strong_npc"),
       Npc("npc-boss_npc-1", Position(300, 0), "boss_npc")>>,
     <<Npc("npc-strong_npc-1", Position(100, 0), "strong_npc"),
       Npc("npc-medium_npc-1", Position(300, 0), "medium_npc"),
       Npc("npc-medium_npc-2", Position(200, 0), "medium_npc")>>,
     <<Npc("npc-boss_npc-1", Position(100, 0), "boss_npc"),
       Npc("npc-strong_npc-1", Position(200, 0), "strong_npc"),
       Npc("npc-weak_npc-1", Position(300, 0), "weak_npc")>>}

\* the dict resources: the nearest one first, last, and tied with another one
FarmResourceLists ==
    {<<>>,
     <<Resource("res-bonus_box-1", Position(500, 500), "bonus_box")>>,
     <<Resource("res-bonus_box-1", Position(500, 500), "bonus_box"),
       Resource("res-bonus_box-2", Position(100, 0), "bonus_box")>>,
     <<Resource("res-bonus_box-1", Position(0, 300), "bonus_box"),
       Resource("res-bonus_box-2", Position(300, 0), "bonus_box"),
       Resource("res-bonus_box-3", Position(400, 0), "bonus_box")>>,
     <<Resource("res-bonus_box-1", Position(400, 0), "bonus_box"),
       Resource("res-bonus_box-2", Position(180, 240), "bonus_box"),
       Resource("res-bonus_box-3", Position(300, 0), "bonus_box")>>}

FarmTargetIds == {None, "npc-weak_npc-1", "npc-medium_npc-1", "npc-boss_npc-2"}

FarmStates ==
    {[GameState(Ship(Position(0, 0), 100, 100)) EXCEPT
         !.npcs = npcs, !.resources = resources, !.current_target_id = target,
         !.in_combat = in_combat, !.ticks_with_current_target = ticks] :
        npcs \in FarmNpcLists, resources \in FarmResourceLists, target \in FarmTargetIds,
        in_combat \in BOOLEAN, ticks \in 0..2}

FarmInit ==
    /\ cfg \in FarmConfigs
    /\ state \in FarmStates
    /\ safety = BasicSafety
    /\ navigation = SimpleNavigation
    /\ pc = "farm_decide"
    /\ MainLocals

\* action = farm.decide(state), called once (or as one call of a sequence of calls)
FarmDecideCall ==
    /\ pc \in {"farm_decide", "calls"}
    /\ pre' = state
    /\ state' = farm_decide(cfg, state).state
    /\ action' = farm_decide(cfg, state).action
    /\ invoked' = <<"farm">>
    /\ pc' = IF pc = "calls" THEN "calls" ELSE "farm_decided"
    /\ frame' = NoFrame
    /\ UNCHANGED <<selected_at, cfg, safety, navigation, boot, iter, clock, stop_reason,
                   danger_level, source, dispatched, exc, report>>

FarmNext == FarmDecideCall

FarmSpec == FarmInit /\ [][FarmNext]_vars

-----------------------------------------------------------------------------
(* BasicCombat.decide on its own, from any GameState and any Combat configuration *)

\* no tick limit, a limit the states below reach, and the default
CombatTickLimits == {0, 2, DEFAULT_MAX_TARGET_TICKS}

\* the default attack range, and a negative one, which every distance exceeds
CombatAttackRanges == {DEFAULT_MAX_TARGET_DISTANCE, -100}

CombatConfigs ==
    {[ModuleConfig(FALSE, TRUE, enabled, <<"weak_npc", "medium_npc">>, limit)
         EXCEPT !.max_target_distance = range] :
        enabled \in BOOLEAN, limit \in CombatTickLimits, range \in CombatAttackRanges}

\* targets on the ship, in attack range, between the two distances, just below
\* and exactly at the disengage distance (on the axis and off it), and beyond it
CombatNpcLists ==
    {<<>>} \cup
    {<<Npc("npc-weak_npc-1", pos, "weak_npc"),
       Npc("npc-medium_npc-1", Position(100, 100), "medium_npc")>> :
        pos \in {Position(0, 0), Position(100, 0), Position(200, 0), Position(300, 0),
                 Position(180, 240), Position(349, 0), Position(350, 0),
                 Position(210, 280), Position(400, 300)}}

CombatTargetIds == {None, "npc-weak_npc-1", "npc-weak_npc-2"}

\* the ship where main puts it, and one with a target straight above it
CombatShipPositions == {Position(0, 0), Position(400, 600)}

CombatStates ==
    {[GameState(Ship(pos, 100, 100)) EXCEPT
         !.npcs = npcs, !.current_target_id = target,
         !.in_combat = in_combat, !.ticks_with_current_target = ticks] :
        pos \in CombatShipPositions, npcs \in CombatNpcLists, target \in CombatTargetIds,
        in_combat \in BOOLEAN, ticks \in 0..3}

CombatInit ==
    /\ cfg \in CombatConfigs
    /\ state \in CombatStates
    /\ safety = BasicSafety
    /\ navigation = SimpleNavigation
    /\ pc = "combat_decide"
    /\ MainLocals

\* action = combat.decide(state), called once and once more on the state the
\* first call left (or as one call of a sequence of calls)
CombatDecideCall ==
    /\ pc \in {"combat_decide", "combat_decided", "calls"}
    /\ pre' = state
    /\ state' = combat_decide(cfg, state).state
    /\ action' = combat_decide(cfg, state).action
    /\ invoked' = <<"combat">>
    /\ pc' = CASE pc = "calls" -> "calls"
                [] pc = "combat_decide" -> "combat_decided"
                [] OTHER -> "combat_decided_again"
    /\ frame' = NoFrame
    /\ UNCHANGED <<selected_at, cfg, safety, navigation, boot, iter, clock, stop_reason,
                   danger_level, source, dispatched, exc, report>>

CombatNext == CombatDecideCall

CombatSpec == CombatInit /\ [][CombatNext]_vars

-----------------------------------------------------------------------------
(* The operations that write the target fields of a GameState (the perception
   update, Farm.decide, Combat.decide, advance_tick), called in any order on
   the GameState main constructs *)

CallsConfigs ==
    {ModuleConfig(collect, hunt, enabled, <<"weak_npc", "medium_npc">>, limit) :
        collect \in BOOLEAN, hunt \in BOOLEAN, enabled \in BOOLEAN, limit \in {0, 2}}

CallsInit ==
    /\ cfg \in CallsConfigs
    /\ state \in {GameState(ship) : ship \in Ships}
    /\ safety = BasicSafety
    /\ navigation = SimpleNavigation
    /\ pc = "calls"
    /\ MainLocals

\* vision.update_state(state) with a matched frame
UpdateStateCall ==
    /\ pc = "calls"
    /\ state.tick_counter < MaxCallTicks
    /\ pre' = state
    /\ \E seen \in Frames : /\ state' = update_state(state, seen)
                            /\ frame' = seen
    /\ invoked' = <<"vision">>
    /\ UNCHANGED <<selected_at, cfg, safety, navigation, pc, boot, iter, clock, stop_reason,
                   danger_level, action, source, dispatched, exc, report>>

\* state.advance_tick(), as the loop and a perception update without a frame call it
TickCall ==
    /\ pc = "calls"
    /\ state.tick_counter < MaxCallTicks
    /\ pre' = state
    /\ state' = advance_tick(state)
    /\ invoked' = <<"advance_tick">>
    /\ frame' = NoFrame
    /\ UNCHANGED <<selected_at, cfg, safety, navigation, pc, boot, iter, clock, stop_reason,
                   danger_level, action, source, dispatched, exc, report>>

CallsNext == UpdateStateCall \/ FarmDecideCall \/ CombatDecideCall \/ TickCall

CallsSpec == CallsInit /\ [][CallsNext]_vars

-----------------------------------------------------------------------------
(* SimpleNavigation on its own: tick, the two mode switches and
   set_destination, called in any order on the instance main constructs *)

NavigationInit ==
    /\ cfg = LongRun
    /\ state = GameState(Ship(Position(0, 0), 100, 100))
    /\ safety = BasicSafety
    /\ navigation = SimpleNavigation
    /\ pc = "navigation_calls"
    /\ boot = Boot0
    /\ iter = 0
    /\ clock = 0
    /\ stop_reason = Unbound
    /\ danger_level = 0
    /\ action = NoAction
    /\ source = "none"
    /\ invoked = <<>>
    /\ dispatched = <<>>
    /\ exc = NoExc
    /\ report = NoReport
    /\ pre = navigation
    /\ selected_at = 0
    /\ frame = NoFrame

\* action = navigation.tick(state)
NavigationTickCall ==
    /\ pc = "navigation_calls"
    /\ navigation.ticks_since_last_move < MaxEscapeTicks
    /\ pre' = navigation
    /\ \E dx \in Jitter, dy \in Jitter :
          /\ navigation' = navigation_tick(navigation, dx, dy).navigation
          /\ action' = navigation_tick(navigation, dx, dy).action
    /\ invoked' = <<"tick">>
    /\ UNCHANGED <<frame, selected_at, cfg, state, safety, pc, boot, iter, clock, stop_reason,
                   danger_level, source, dispatched, exc, report>>

EnterEscapeModeCall ==
    /\ pc = "navigation_calls"
    /\ pre' = navigation
    /\ navigation' = enter_escape_mode(navigation)
    /\ action' = NoAction
    /\ invoked' = <<"enter_escape_mode">>
    /\ UNCHANGED <<frame, selected_at, cfg, state, safety, pc, boot, iter, clock, stop_reason,
                   danger_level, source, dispatched, exc, report>>

EnterPatrolModeCall ==
    /\ pc = "navigation_calls"
    /\ pre' = navigation
    /\ navigation' = enter_patrol_mode(navigation)
    /\ action' = NoAction
    /\ invoked' = <<"enter_patrol_mode">>
    /\ UNCHANGED <<frame, selected_at, cfg, state, safety, pc, boot, iter, clock, stop_reason,
                   danger_level, source, dispatched, exc, report>>

SetDestinationCall ==
    /\ pc = "navigation_calls"
    /\ pre' = navigation
    /\ navigation' = set_destination(navigation, Position(500, 500))
    /\ action' = NoAction
    /\ invoked' = <<"set_destination">>
    /\ UNCHANGED <<frame, selected_at, cfg, state, safety, pc, boot, iter, clock, stop_reason,
                   danger_level, source, dispatched, exc, report>>

NavigationNext ==
    \/ NavigationTickCall
    \/ EnterEscapeModeCall
    \/ EnterPatrolModeCall
    \/ SetDestinationCall

NavigationSpec == NavigationInit /\ [][NavigationNext]_vars

-----------------------------------------------------------------------------
(* Properties *)

Terminated == pc = "terminated"

\* stop_reason is assigned right before the loop
LoopStarted == stop_reason # Unbound

TickPcs == {"vision", "assess", "safety_decide", "farm", "combat", "navigation", "execute"}

TickExceptions == {"vision", "safety", "farm", "combat", "navigation", "driver.execute"}

CallOrder == <<"vision", "safety.assess", "safety", "farm", "combat", "navigation">>

IsPrefix(s, t) == Len(s) <= Len(t) /\ \A k \in DOMAIN s : s[k] = t[k]

\* C1: in every iteration driver.execute is called at most once, with the action of
\* the first module in the order Safety > Farm > Combat > Navigation that returned
\* one, and no module is called after a module has returned an action
C1_OneDispatchByPriority ==
    /\ Len(dispatched) <= 1
    /\ IsPrefix(invoked, CallOrder)
    /\ source # "none" => invoked # <<>> /\ invoked[Len(invoked)] = source
    /\ dispatched # <<>> => dispatched = <<source>> /\ source # "none"
    /\ pc = "execute" => source # "none" /\ action # NoAction
    /\ (pc \in TickPcs \ {"execute"}) => source = "none" /\ dispatched = <<>>

\* Safety's action was dispatched in a state where Farm had an action too
C1_Witness ==
    /\ dispatched = <<"safety">>
    /\ invoked = <<"vision", "safety.assess", "safety">>
    /\ farm_decide(cfg, state).action # NoAction

\* C2: after N completed iterations tick_counter is its value before the loop (0) plus N
C2_TickCounterCountsIterations ==
    pc = "loop_head" => state.tick_counter = iter

Dangling(gs) == gs.current_target_id # None /\ gs.current_target_id \notin Ids(gs.npcs)

\* C3: advance_tick on a GameState whose target id is not a key of npcs leaves
\* current_target_id None and ticks_with_current_target 0
C3_DanglingTargetSelfHeals ==
    [][(pc = "advance_tick" /\ Dangling(state))
        => (state'.current_target_id = None /\ state'.ticks_with_current_target = 0)]_vars

\* C4: assess then decide on the same state: decide returns an action exactly
\* when the score assess returned is at least the escape threshold
C4_DecideIffAssessAtThreshold ==
    (pc \in {"execute", "farm"})
        => ((action # NoAction) <=> (danger_level >= ESCAPE_DANGER_THRESHOLD))

\* C5: once the loop has started, main ends only after the shutdown: driver.stop()
\* was called if the driver has it, and its exception did not leave main
C5_LoopExitsThroughShutdown ==
    (Terminated /\ LoopStarted)
        => /\ boot.stop \in {"ok", "raised", "unsupported"}
           /\ exc \in {NoExc} \cup TickExceptions
           /\ report # NoReport

\* the loop was left by an exception of driver.execute and driver.stop() raised too
C5_Witness ==
    Terminated /\ exc = "driver.execute" /\ boot.stop = "raised" /\ iter >= 1

BootFailed ==
    \/ boot.login \in {"no_credentials", "false", "raised"}
    \/ boot.enter_game \in {"false", "raised"}

\* C6: after every bootstrap failure main ends without a tick and with the
\* shutdown attempted
C6_BootstrapFailureStopsDriver ==
    (Terminated /\ BootFailed)
        => /\ iter = 0
           /\ boot.stop \in {"ok", "raised", "unsupported"}

\* C7: an exception raised in a tick by perception, a module or the driver does
\* not end the loop
C7_TickExceptionsAreIsolated ==
    exc \in TickExceptions => pc \notin {"finally", "terminated"}

\* a measure every step of main increases, bounded by its value at "terminated"
PcRank ==
    CASE pc = "start" -> 0
      [] pc = "login" -> 1
      [] pc = "enter_game" -> 2
      [] pc = "loop_init" -> 3
      [] pc = "vision" -> 0
      [] pc = "assess" -> 1
      [] pc = "safety_decide" -> 2
      [] pc = "farm" -> 3
      [] pc = "combat" -> 4
      [] pc = "navigation" -> 5
      [] pc = "execute" -> 6
      [] pc = "loop_head" -> 7
      [] OTHER -> 0

Measure ==
    IF pc = "terminated" THEN 10 * (cfg.max_ticks + 2) + 1
    ELSE IF pc = "finally" THEN 10 * (cfg.max_ticks + 2)
    ELSE 10 * iter + PcRank

C8_Bounded ==
    /\ iter <= cfg.max_ticks
    /\ (pc \in TickPcs /\ cfg.max_seconds > 0) => clock < cfg.max_seconds
    /\ (pc \in {"finally", "terminated"} /\ LoopStarted /\ exc = NoExc /\ iter < cfg.max_ticks)
          => /\ cfg.max_seconds > 0
             /\ clock >= cfg.max_seconds
             /\ stop_reason = "max_seconds reached"

\* C8: the loop runs at most max_ticks iterations and every step brings main
\* closer to its end; no iteration starts once the clock has reached a positive
\* max_seconds, and with max_seconds = 0 only the tick budget ends the loop
C8_LoopTerminates ==
    [][C8_Bounded /\ C8_Bounded' /\ Measure' > Measure]_vars

\* the time budget ended a loop that had run and had iterations left
C8_Witness ==
    /\ Terminated
    /\ stop_reason = "max_seconds reached"
    /\ iter >= 1
    /\ iter < cfg.max_ticks

TimeBroke == LoopStarted /\ exc = NoExc /\ TimeIsUp(clock)

RanOut == LoopStarted /\ exc = NoExc /\ ~TimeIsUp(clock)

\* C9: every run ends by reporting the stop reason and the tick count, and the
\* reason is "max_ticks reached" exactly when the loop ran out, "max_seconds
\* reached" exactly when the time check broke it, and "normal" otherwise
C9_StopReasonReported ==
    Terminated
        => /\ report # NoReport
           /\ report.reason = stop_reason
           /\ (stop_reason = "max_ticks reached") <=> RanOut
           /\ (stop_reason = "max_seconds reached") <=> TimeBroke
           /\ (stop_reason = "normal") <=> ~(RanOut \/ TimeBroke)

\* C10: when login returns false or raises, no tick runs: nothing of the loop is called
C10_FailedLoginRunsNoTick ==
    boot.login \in {"false", "raised"}
        => /\ pc \in {"finally", "terminated"}
           /\ iter = 0
           /\ state.tick_counter = 0
           /\ safety = BasicSafety
           /\ navigation = SimpleNavigation
           /\ invoked = <<>>
           /\ dispatched = <<>>

\* main has ended after a login that raised
C10_Witness == Terminated /\ boot.login = "raised"

\* C11: a tick runs only after enter_game was called and returned true, unless
\* the driver has no enter_game operation
C11_LoopAfterEnterGame ==
    (pc \in TickPcs \/ iter >= 1) => boot.enter_game \in {"ok", "unsupported"}
\* C11 as amended: a tick runs only after enter_game was called and returned true,
\* unless the driver has no enter_game operation or has no login operation (main
\* then skips enter_game, since no login was performed)
C11_LoopAfterEnterGameOrNoLogin ==
    (pc \in TickPcs \/ iter >= 1)
        => \/ boot.enter_game \in {"ok", "unsupported"}
           \/ boot.enter_game = "skipped" /\ boot.login = "unsupported"

\* a tick is running after login and enter_game both returned true
C11_Witness == pc = "vision" /\ iter = 1 /\ boot.login = "ok" /\ boot.enter_game = "ok"
\* C12: whatever calls of the perception update, Farm.decide, Combat.decide and
\* advance_tick were made on a fresh GameState, ticks_with_current_target is 0
\* whenever current_target_id is None
C12_NoTargetNoTicks ==
    state.current_target_id = None => state.ticks_with_current_target = 0

\* Combat has just cleared a target whose counter was running
C12_Witness ==
    /\ pc = "calls"
    /\ invoked = <<"combat">>
    /\ pre.current_target_id # None
    /\ pre.ticks_with_current_target >= 1
    /\ state.current_target_id = None

\* the target is an Npc of npcs closer to the ship than the disengage distance
TargetInRange(c, gs) ==
    /\ gs.current_target_id \in Ids(gs.npcs)
    /\ Dist2(gs.ship.position, Lookup(gs.npcs, gs.current_target_id).position)
          < c.disengage_distance * c.disengage_distance

\* C13: at the end of a loop tick in_combat is true only if current_target_id names
\* an Npc of npcs closer than the disengage distance, and in_combat is false
\* whenever current_target_id has been set to None
C13_InCombatOnlyInRange ==
    /\ (pc = "loop_head" /\ iter >= 1 /\ state.in_combat) => TargetInRange(cfg, state)
    /\ state.current_target_id = None => ~state.in_combat
\* Farm.decide reaches its target selection: no box is collected, hunting is
\* enabled, no target is held and there is an NPC
Selecting(c, gs) ==
    /\ ~(c.collect_boxes /\ gs.resources # <<>>)
    /\ c.hunt_npcs
    /\ gs.current_target_id = None
    /\ gs.npcs # <<>>

InList(list, x) == \E k \in DOMAIN list : list[k] = x

\* the position of a type in the priority list; a type it does not name comes
\* after every type it names
Rank(priority, npc_type) ==
    IF InList(priority, npc_type)
    THEN CHOOSE k \in DOMAIN priority :
            priority[k] = npc_type /\ ~InList(SubSeq(priority, 1, k - 1), npc_type)
    ELSE Len(priority) + 1

\* the NPC at index k is ranked best, and is the first of those ranked like it
BestRanked(priority, npcs, k) ==
    \A j \in DOMAIN npcs :
        \/ Rank(priority, npcs[k].npc_type) < Rank(priority, npcs[j].npc_type)
        \/ /\ Rank(priority, npcs[k].npc_type) = Rank(priority, npcs[j].npc_type)
           /\ k <= j

\* C14: the NPC Farm selects has the smallest index of its type in npc_priority,
\* unlisted types ranking after all listed ones, and is the first such NPC in the
\* iteration order of npcs (also with an empty list and with only unlisted types)
C14_SelectsByPriority ==
    (pc = "farm_decided" /\ Selecting(cfg, pre))
        => \E k \in DOMAIN pre.npcs :
              /\ state.current_target_id = pre.npcs[k].id
              /\ BestRanked(cfg.npc_priority, pre.npcs, k)

\* with priority [weak_npc, medium_npc] and the medium_npc first in npcs, the
\* weak_npc was selected
C14_Witness ==
    /\ pc = "farm_decided"
    /\ Selecting(cfg, pre)
    /\ cfg.npc_priority = <<"weak_npc", "medium_npc">>
    /\ Len(pre.npcs) = 2
    /\ pre.npcs[1].npc_type = "medium_npc"
    /\ pre.npcs[2].npc_type = "weak_npc"
    /\ state.current_target_id = pre.npcs[2].id

\* C15: when Farm selects a target, the call sets current_target_id to it,
\* in_combat to true and ticks_with_current_target to 0, changes nothing else
\* and returns no action
C15_SelectionIsSideEffectOnly ==
    (pc = "farm_decided" /\ Selecting(cfg, pre))
        => /\ state.current_target_id \in Ids(pre.npcs)
           /\ state = [pre EXCEPT !.current_target_id = state.current_target_id,
                                  !.in_combat = TRUE,
                                  !.ticks_with_current_target = 0]
           /\ action = NoAction

\* a target was selected in a state that was out of combat with a counter left over
C15_Witness ==
    /\ pc = "farm_decided"
    /\ Selecting(cfg, pre)
    /\ ~pre.in_combat
    /\ pre.ticks_with_current_target = 2
    /\ state.current_target_id # None
    /\ state.ticks_with_current_target = 0

\* C16: with a target held, Farm.decide returns no action and leaves the target
\* fields unchanged, whatever collect_boxes and resources are
C16_HeldTargetFarmDefers ==
    (pc = "farm_decided" /\ pre.current_target_id # None)
        => /\ action = NoAction
           /\ state.current_target_id = pre.current_target_id
           /\ state.in_combat = pre.in_combat
           /\ state.ticks_with_current_target = pre.ticks_with_current_target

\* the resource at index k is nearest to the ship, and the first of those as near
Nearest(gs, k) ==
    \A j \in DOMAIN gs.resources :
        \/ Dist2(gs.ship.position, gs.resources[k].position)
              < Dist2(gs.ship.position, gs.resources[j].position)
        \/ /\ Dist2(gs.ship.position, gs.resources[k].position)
                = Dist2(gs.ship.position, gs.resources[j].position)
           /\ k <= j

\* C17: with collect_boxes on and a resource present, Farm.decide returns a MOVE
\* annotated with the coordinates and id of the nearest resource, the first in
\* iteration order among equally near ones, and leaves the GameState as it was
C17_MovesToNearestResource ==
    (pc = "farm_decided" /\ cfg.collect_boxes /\ pre.resources # <<>>)
        => /\ action # NoAction
           /\ action.type = "MOVE"
           /\ \E k \in DOMAIN pre.resources :
                 /\ Nearest(pre, k)
                 /\ action.meta.target_resource_id = pre.resources[k].id
                 /\ action.meta.rel_x = pre.resources[k].position.x
                 /\ action.meta.rel_y = pre.resources[k].position.y
           /\ state = pre

\* two resources were equally near, neither of them the first of the dict, and the
\* MOVE goes to the earlier one
C17_Witness ==
    /\ pc = "farm_decided"
    /\ cfg.collect_boxes
    /\ Len(pre.resources) = 3
    /\ Dist2(pre.ship.position, pre.resources[2].position)
          = Dist2(pre.ship.position, pre.resources[3].position)
    /\ ~Nearest(pre, 1)
    /\ action # NoAction
    /\ action.meta.target_resource_id = pre.resources[2].id
\* C16 as amended: with a target held, Farm.decide leaves the GameState as it was
\* (it does not reselect, even when the target is no longer in npcs) and returns
\* no action unless collect_boxes is on and a resource is present
C16_HeldTargetIsKept ==
    (pc = "farm_decided" /\ pre.current_target_id # None)
        => /\ state = pre
           /\ (action = NoAction) <=> ~(cfg.collect_boxes /\ pre.resources # <<>>)

\* Farm was called with hunting on and a target that is not in a non-empty npcs,
\* and returned no action
C16_Witness ==
    /\ pc = "farm_decided"
    /\ cfg.hunt_npcs
    /\ Dangling(pre)
    /\ pre.npcs # <<>>
    /\ action = NoAction
\* C18: Combat.decide leaves current_target_id as it was or sets it to None, and
\* current_target_id goes from None to an id only in a call of Farm.decide
C18_OnlyFarmSelects ==
    /\ invoked = <<"combat">> => state.current_target_id \in {pre.current_target_id, None}
    /\ (pre.current_target_id = None /\ state.current_target_id # None)
          => invoked = <<"farm">>

\* Combat, enabled, lost a target that had left npcs while other NPCs were there
C18_Witness ==
    /\ pc = "calls"
    /\ invoked = <<"combat">>
    /\ cfg.combat_enabled
    /\ Dangling(pre)
    /\ pre.npcs # <<>>
    /\ state.current_target_id = None

\* C19: with Combat enabled and a current_target_id that is not in npcs,
\* Combat.decide sets current_target_id to None, in_combat to false and
\* ticks_with_current_target to 0, changes nothing else and returns no action
C19_LostTargetIsCleared ==
    (pc = "combat_decided" /\ cfg.combat_enabled /\ Dangling(pre))
        => /\ state = [pre EXCEPT !.current_target_id = None, !.in_combat = FALSE,
                                  !.ticks_with_current_target = 0]
           /\ action = NoAction

\* the lost target was being fought, with a running counter and other NPCs in npcs
C19_Witness ==
    /\ pc = "combat_decided"
    /\ cfg.combat_enabled
    /\ Dangling(pre)
    /\ pre.in_combat
    /\ pre.ticks_with_current_target >= 1
    /\ pre.npcs # <<>>
    /\ state.current_target_id = None

\* the disengage condition of the contract on a GameState whose target is in npcs
DisengageDue(c, gs) ==
    \/ Dist2(gs.ship.position, Lookup(gs.npcs, gs.current_target_id).position)
          >= c.disengage_distance * c.disengage_distance
    \/ c.max_target_ticks > 0 /\ gs.ticks_with_current_target >= c.max_target_ticks

\* C20: with Combat enabled and a target that is in npcs, Combat.decide clears
\* target, in_combat and counter and returns no action exactly when the distance
\* is >= disengage_distance or a tick limit > 0 has been reached; otherwise the
\* target is kept (so a limit of 0 never disengages)
C20_DisengageExactlyWhenDue ==
    (pc = "combat_decided" /\ cfg.combat_enabled /\ pre.current_target_id \in Ids(pre.npcs))
        => IF DisengageDue(cfg, pre)
           THEN /\ state = [pre EXCEPT !.current_target_id = None, !.in_combat = FALSE,
                                       !.ticks_with_current_target = 0]
                /\ action = NoAction
           ELSE /\ state.current_target_id = pre.current_target_id
                /\ state.ticks_with_current_target = pre.ticks_with_current_target
                /\ state.in_combat
                /\ action # NoAction

\* with the limit 0 a target just inside the disengage distance is kept, however
\* long it has been held
C20_Witness ==
    /\ pc = "combat_decided"
    /\ cfg.combat_enabled
    /\ cfg.max_target_ticks = 0
    /\ pre.ticks_with_current_target = 3
    /\ pre.current_target_id \in Ids(pre.npcs)
    /\ Lookup(pre.npcs, pre.current_target_id).position = Position(349, 0)
    /\ state.current_target_id = pre.current_target_id
\* a held target in npcs, Combat enabled and no disengage condition
Engaged(c, gs) ==
    /\ c.combat_enabled
    /\ gs.current_target_id \in Ids(gs.npcs)
    /\ ~DisengageDue(c, gs)

TargetDelta(gs) ==
    [x |-> Lookup(gs.npcs, gs.current_target_id).position.x - gs.ship.position.x,
     y |-> Lookup(gs.npcs, gs.current_target_id).position.y - gs.ship.position.y]

\* the target is farther from the ship than max_target_distance
BeyondAttackRange(c, gs) ==
    \/ c.max_target_distance < 0
    \/ Dist2(gs.ship.position, Lookup(gs.npcs, gs.current_target_id).position)
          > c.max_target_distance * c.max_target_distance

\* (rel_x, rel_y) is delta scaled to length 1 (1000 on the grid), or (0,0) when
\* delta is (0,0); the distances of the model are whole numbers of the grid
UnitVectorOf(meta, delta) ==
    IF delta.x = 0 /\ delta.y = 0
    THEN meta.rel_x = 0 /\ meta.rel_y = 0
    ELSE \E d \in 1..2000 :
            /\ d * d = delta.x * delta.x + delta.y * delta.y
            /\ meta.rel_x * d = 1000 * delta.x
            /\ meta.rel_y * d = 1000 * delta.y

\* C21: with a held target in npcs and no disengage condition, Combat.decide sets
\* in_combat, keeps target and counter, and returns a MOVE with the unit vector
\* toward the target ((0,0) at distance 0) when the distance exceeds
\* max_target_distance, and otherwise an ATTACK whose target_id is the held id
C21_ApproachOrAttack ==
    (pc = "combat_decided" /\ Engaged(cfg, pre))
        => /\ state = [pre EXCEPT !.in_combat = TRUE]
           /\ action # NoAction
           /\ action.target_id = pre.current_target_id
           /\ IF BeyondAttackRange(cfg, pre)
              THEN action.type = "MOVE" /\ UnitVectorOf(action.meta, TargetDelta(pre))
              ELSE action.type = "ATTACK"

\* Combat, not yet in combat, approached a target that is off both axes
C21_Witness ==
    /\ pc = "combat_decided"
    /\ Engaged(cfg, pre)
    /\ ~pre.in_combat
    /\ TargetDelta(pre) = [x |-> 180, y |-> 240]
    /\ action # NoAction
    /\ action.type = "MOVE"
    /\ action.meta.rel_x = 600
    /\ action.meta.rel_y = 800

\* C22: with a held target in npcs within max_target_distance and no disengage
\* condition, a Combat.decide call returns ATTACK for that target and leaves
\* these conditions true, and a second call on the state the first one left
\* changes nothing
C22_AttackIsIdempotent ==
    (pc \in {"combat_decided", "combat_decided_again"}
        /\ Engaged(cfg, pre) /\ ~BeyondAttackRange(cfg, pre))
        => /\ action # NoAction
           /\ action.type = "ATTACK"
           /\ action.target_id = pre.current_target_id
           /\ Engaged(cfg, state) /\ ~BeyondAttackRange(cfg, state)
           /\ pc = "combat_decided_again" => state = pre

\* the second of two calls attacked a target exactly at max_target_distance
C22_Witness ==
    /\ pc = "combat_decided_again"
    /\ Engaged(cfg, pre)
    /\ TargetDelta(pre) = [x |-> 200, y |-> 0]
    /\ cfg.max_target_distance = 200
    /\ action # NoAction
    /\ action.type = "ATTACK"
    /\ state = pre

\* C27: a disabled Combat.decide sets in_combat to false, returns no action and
\* leaves everything else, current_target_id and ticks_with_current_target
\* included, as it was, also when the target id is not in npcs
C27_DisabledCombatKeepsTarget ==
    (pc = "combat_decided" /\ ~cfg.combat_enabled)
        => /\ state = [pre EXCEPT !.in_combat = FALSE]
           /\ action = NoAction

\* a disabled Combat was called in combat with a target that is not in npcs
C27_Witness ==
    /\ pc = "combat_decided"
    /\ ~cfg.combat_enabled
    /\ Dangling(pre)
    /\ pre.in_combat
    /\ pre.ticks_with_current_target = 3
    /\ state.current_target_id = pre.current_target_id
    /\ ~state.in_combat
\* C23: in escape mode every tick returns the MOVE to the safe point (0.5, 0.5)
\* annotated escape = true, whatever the counter is, and leaves mode, waypoint
\* index and destination as they were
C23_EscapeMovesEveryTick ==
    (pc = "navigation_calls" /\ invoked = <<"tick">> /\ pre.mode = "escape")
        => /\ action # NoAction
           /\ action.type = "MOVE"
           /\ action.meta.rel_x = 500
           /\ action.meta.rel_y = 500
           /\ action.meta.escape = TRUE
           /\ navigation = [pre EXCEPT !.ticks_since_last_move = @ + 1]

\* an escape tick with a waypoint index that patrol moves had advanced, and with
\* the counter past the patrol interval
C23_Witness ==
    /\ pc = "navigation_calls"
    /\ invoked = <<"tick">>
    /\ pre.mode = "escape"
    /\ pre.current_index = 2
    /\ pre.ticks_since_last_move = MOVE_EVERY_N_TICKS
    /\ action # NoAction

\* C24: in patrol mode a tick returns no action and counts while fewer than 10
\* ticks have been made since the last move or reset; the 10th resets the counter,
\* returns a MOVE toward the current waypoint of the 4-point list (within the
\* jitter, inside [0.05, 0.95]) and advances the index by one modulo 4
C24_PatrolMovesEveryTenthTick ==
    (pc = "navigation_calls" /\ invoked = <<"tick">> /\ pre.mode = "patrol")
        => IF pre.ticks_since_last_move + 1 < 10
           THEN /\ action = NoAction
                /\ navigation = [pre EXCEPT !.ticks_since_last_move = @ + 1]
           ELSE /\ action # NoAction
                /\ action.type = "MOVE"
                /\ Len(patrol_points) = 4
                /\ Abs(action.meta.rel_x - patrol_points[pre.current_index + 1].x) <= 50
                /\ Abs(action.meta.rel_y - patrol_points[pre.current_index + 1].y) <= 50
                /\ action.meta.rel_x \in 50..950
                /\ action.meta.rel_y \in 50..950
                /\ navigation = [pre EXCEPT !.ticks_since_last_move = 0,
                                            !.current_index = (@ + 1) % 4]

\* the patrol move to the last waypoint wrapped the index around to the first
C24_Witness ==
    /\ pc = "navigation_calls"
    /\ invoked = <<"tick">>
    /\ pre.mode = "patrol"
    /\ pre.current_index = 3
    /\ navigation.current_index = 0
    /\ action # NoAction
    /\ action.meta.rel_x = 250
    /\ action.meta.rel_y = 750

\* C28: enter_patrol_mode in patrol mode and enter_escape_mode in escape mode
\* leave mode, waypoint index and destination unchanged and set
\* ticks_since_last_move to 0
C28_SameModeSwitchResetsCounter ==
    (pc = "navigation_calls"
        /\ \/ invoked = <<"enter_patrol_mode">> /\ pre.mode = "patrol"
           \/ invoked = <<"enter_escape_mode">> /\ pre.mode = "escape")
        => navigation = [pre EXCEPT !.ticks_since_last_move = 0]

\* C28 as amended: enter_escape_mode in escape mode changes nothing but
\* ticks_since_last_move, which it sets to 0; enter_patrol_mode in patrol mode
\* changes nothing at all, the counter included
C28_SameModeSwitch ==
    /\ (pc = "navigation_calls" /\ invoked = <<"enter_escape_mode">> /\ pre.mode = "escape")
          => navigation = [pre EXCEPT !.ticks_since_last_move = 0]
    /\ (pc = "navigation_calls" /\ invoked = <<"enter_patrol_mode">> /\ pre.mode = "patrol")
          => navigation = pre

\* enter_patrol_mode was called in patrol mode with the counter running
C28_Witness ==
    /\ pc = "navigation_calls"
    /\ invoked = <<"enter_patrol_mode">>
    /\ pre.mode = "patrol"
    /\ pre.ticks_since_last_move = 9
    /\ pre.current_index = 1
    /\ navigation = pre
\* C25: a Safety action is dispatched with Navigation in escape mode, and Farm,
\* Combat and Navigation.tick are called, and their actions dispatched, with
\* Navigation in patrol mode
C25_SafetyDrivesNavigationMode ==
    /\ (pc = "execute" /\ source = "safety") => navigation.mode = "escape"
    /\ pc \in {"farm", "combat", "navigation"} => navigation.mode = "patrol"
    /\ (pc = "execute" /\ source # "safety") => navigation.mode = "patrol"

\* the escape action of the second tick is about to be dispatched
C25_Witness ==
    /\ pc = "execute"
    /\ source = "safety"
    /\ iter = 2
    /\ navigation.mode = "escape"
    /\ navigation.ticks_since_last_move = 0
\* Combat.decide is reached with a target that Farm selected in iteration
\* selected_at and that has been held and listed in npcs ever since
HeldSinceSelection ==
    /\ pc = "combat"
    /\ selected_at > 0
    /\ state.current_target_id \in Ids(state.npcs)

\* C26: the ticks_with_current_target that Combat.decide reads is the number of
\* loop iterations completed since Farm selected the target it holds, while that
\* target stays in npcs, and it is 0 when there is no target
C26_TargetTicksCountIterations ==
    /\ HeldSinceSelection => state.ticks_with_current_target = iter - selected_at
    /\ (pc = "combat" /\ state.current_target_id = None)
          => state.ticks_with_current_target = 0
\* C29: assess returns min(100, H + E + S), a score within 0..100: H is 60 up to
\* three tenths of max_hp, 30 up to six tenths and 0 above or without max_hp, E is
\* 40 from the danger distance on either axis and 20 from the warn distance, S is
\* 40 from a streak of 100 and 20 from a streak of 50; a ship at hp 20 of 100 at
\* the origin with no streak scores 60 and decide returns no action
C29_SafetyScore ==
    LET ship == state.ship
        x == Abs(ship.position.x)
        y == Abs(ship.position.y)
        H == IF ship.max_hp <= 0 THEN 0
             ELSE IF ship.hp * 10 <= ship.max_hp * 3 THEN 60
             ELSE IF ship.hp * 10 <= ship.max_hp * 6 THEN 30
             ELSE 0
        E == IF x >= 1200 \/ y >= 1200 THEN 40
             ELSE IF x >= 800 \/ y >= 800 THEN 20
             ELSE 0
        S == IF safety.stationary_ticks >= 100 THEN 40
             ELSE IF safety.stationary_ticks >= 50 THEN 20
             ELSE 0
        scenario == ship = Ship(Position(0, 0), 20, 100) /\ safety.stationary_ticks < 50
    IN  /\ pc = "safety_decide" => /\ danger_level = Min(100, H + E + S)
                                   /\ danger_level \in 0..100
        /\ (pc = "safety_decide" /\ scenario) => danger_level = 60
        /\ (pc \in {"farm", "execute"} /\ scenario) => action = NoAction

\* the score is capped: low HP at the far edge after a streak of 100 assessments
C29_Witness ==
    /\ pc = "safety_decide"
    /\ state.ship.hp = 30
    /\ state.ship.max_hp = 100
    /\ state.ship.position = Position(0, -EDGE_DANGER_THRESHOLD)
    /\ safety.stationary_ticks = STATIONARY_TICKS_ESCAPE
    /\ danger_level = 100

\* C30: the streak is 0 after the first assessment and after an assessment of a
\* ship more than epsilon away from the position assessed before, and otherwise
\* one more than before; at full HP near the origin a streak of 100 or more
\* scores 40 and decide returns no action
C30_StationaryStreak ==
    [][pc' \in {"safety_decide", "farm", "execute"} =>
          /\ safety'.stationary_ticks =
                IF safety.last_position = <<>> THEN 0
                ELSE IF Dist2(state.ship.position, safety.last_position[1]) > 1 THEN 0
                ELSE safety.stationary_ticks + 1
          /\ (/\ state.ship = Ship(Position(0, 0), 100, 100)
              /\ safety'.stationary_ticks >= 100)
                => /\ pc' = "safety_decide" => danger_level' = 40
                   /\ pc = "safety_decide" => action' = NoAction /\ pc' = "farm"]_vars

\* assess and decide have both counted past 100 assessments at the origin
C30_Witness ==
    /\ pc = "farm"
    /\ state.ship = Ship(Position(0, 0), 100, 100)
    /\ safety.stationary_ticks = STATIONARY_TICKS_ESCAPE + 1
    /\ danger_level = 40
    /\ action = NoAction
\* C31: after a perception update that completed an observation, npcs is exactly
\* what that observation detected, empty when it detected no NPC, and so is
\* resources
C31_ObservationReplacesEntities ==
    (invoked = <<"vision">> /\ frame # NoFrame)
        => /\ state.npcs = frame.npcs
           /\ state.resources = frame.resources
\* C32: no call of the loop writes the ship (identity, position, hp, max_hp,
\* shield, max_shield), whether Safety, Farm, Combat, Navigation or the tick
\* bookkeeping makes the step, and Safety.assess and Safety.decide leave the
\* whole GameState as it was
C32_NoModuleWritesShip ==
    [][/\ state'.ship = state.ship
       /\ pc \in {"assess", "safety_decide"} => state' = state]_vars

\* a tick in which Safety, Farm and Combat ran, Combat cleared the target that
\* Farm had selected, and the ship is still the one main built
C32_Witness ==
    /\ pc = "navigation"
    /\ iter = 2
    /\ invoked = <<"vision", "safety.assess", "safety", "farm", "combat">>
    /\ state.npcs # <<>>
    /\ state.current_target_id = None
    /\ selected_at = iter
    /\ state.ship = Ship(Position(0, 0), 100, 100)
\* C33: a MOVE action carries rel_x and rel_y, both within [0, 1] (0..1000 on
\* the grid), the range in which the driver clicks, whichever module produced it
C33_MoveIsNormalizedClick ==
    (action # NoAction /\ action.type = "MOVE")
        => /\ {"rel_x", "rel_y"} \subseteq DOMAIN action.meta
           /\ action.meta.rel_x \in 0..1000
           /\ action.meta.rel_y \in 0..1000
\* C34: at every point of a run, in_combat is true only while current_target_id
\* is not None
C34_InCombatHasTarget == state.in_combat => state.current_target_id # None

\* Combat attacks, in the second tick, the target that Farm selected in the first
C34_Witness ==
    /\ pc = "execute"
    /\ source = "combat"
    /\ action.type = "ATTACK"
    /\ iter = 2
    /\ selected_at = 1
    /\ state.in_combat
    /\ state.current_target_id = action.target_id

\* C35: in the loop Navigation is in escape mode only in and after a tick that
\* dispatches the Safety action and skips Farm, Combat and Navigation.tick, so
\* Navigation.tick runs in patrol mode, no dispatched action is the escape MOVE
\* of Navigation, and in escape mode the patrol interval counter is 0
C35_NoNavigationTickInEscape ==
    /\ navigation.mode = "escape"
          => /\ pc \notin {"farm", "combat", "navigation"}
             /\ pc = "execute" => source = "safety"
             /\ navigation.ticks_since_last_move = 0
    /\ pc = "navigation" => navigation.mode = "patrol"
    /\ (pc = "execute" /\ source = "navigation")
          => /\ action.type = "MOVE"
             /\ "escape" \notin DOMAIN action.meta
             /\ "waypoint_index" \in DOMAIN action.meta

\* the ship at rest escapes for the first time, five ticks after the second
\* patrol move
C35_Witness ==
    /\ cfg = StreakRun
    /\ pc = "execute"
    /\ source = "safety"
    /\ iter = StreakRunTicks - 1
    /\ safety.stationary_ticks = STATIONARY_TICKS_WARN + 1
    /\ navigation.mode = "escape"
    /\ navigation.current_index = 2
    /\ navigation.ticks_since_last_move = 0

\* Safety.decide has returned in this tick
SafetyDecided == pc \in {"farm", "combat", "navigation", "execute"}

\* C36: in a tick the score Safety.decide computes is at least the score
\* Safety.assess returned (an escape action reports no less, and no action means
\* assess scored below the threshold too), and the streak of the ship, which does
\* not move, grows by 2 per tick: 2 * tick - 2 after assess, 2 * tick - 1 after
\* decide
C36_DecideScoresNoLessThanAssess ==
    /\ (pc = "execute" /\ source = "safety") => action.meta.danger >= danger_level
    /\ (SafetyDecided /\ source # "safety") => danger_level < ESCAPE_DANGER_THRESHOLD
    /\ pc = "safety_decide" => safety.stationary_ticks = 2 * iter - 2
    /\ SafetyDecided => safety.stationary_ticks = 2 * iter - 1

\* the tick in which the streak of the ship at rest reaches the warn threshold
\* in assess and passes it in decide
C36_Witness ==
    /\ cfg = StreakRun
    /\ pc = "execute"
    /\ source = "safety"
    /\ danger_level = 80
    /\ action.meta.danger = 80
    /\ safety.stationary_ticks = STATIONARY_TICKS_WARN + 1
    /\ 2 * iter = STATIONARY_TICKS_WARN + 2

\* C37: in a run of the ship main builds (hp 100 of 100 at the origin) the danger
\* score never exceeds 40, Safety.decide returns no action, no escape action is
\* dispatched and Navigation stays in patrol mode
C37_HealthyShipNeverEscapes ==
    state.ship = Ship(Position(0, 0), 100, 100)
        => /\ danger_level <= 40
           /\ source # "safety"
           /\ action # NoAction => "escape" \notin DOMAIN action.meta
           /\ navigation.mode = "patrol"

\* after more than 100 assessments at rest the score is 40, Safety.decide has
\* returned no action and Navigation patrols
C37_Witness ==
    /\ state.ship = Ship(Position(0, 0), 100, 100)
    /\ pc = "navigation"
    /\ safety.stationary_ticks > STATIONARY_TICKS_ESCAPE
    /\ danger_level = 40
    /\ action = NoAction
    /\ navigation.mode = "patrol"

\* hunting and Combat are enabled, and the NPC at index k of npcs is the one the
\* priority rule picks and lies at the disengage distance or beyond it
FarPick(k) ==
    /\ cfg.hunt_npcs
    /\ cfg.combat_enabled
    /\ BestRanked(cfg.npc_priority, state.npcs, k)
    /\ Dist2(state.ship.position, state.npcs[k].position)
          >= cfg.disengage_distance * cfg.disengage_distance

\* C38: when the NPC the priority rule picks is at the disengage distance or
\* beyond, a Farm.decide that is followed by Combat.decide selects that NPC,
\* Combat.decide clears it in the same tick without a MOVE or an ATTACK, and the
\* tick ends with no target and in_combat false, so that the next tick does the
\* same
C38_SelectDisengageCycle ==
    [][\A k \in DOMAIN state.npcs :
          FarPick(k) =>
             /\ (pc = "farm" /\ pc' = "combat" /\ state.current_target_id = None)
                   => /\ state'.current_target_id = state.npcs[k].id
                      /\ state'.in_combat
             /\ (pc = "combat" /\ pc' # "finally"
                      /\ state.current_target_id = state.npcs[k].id)
                   => /\ state'.current_target_id = None
                      /\ ~state'.in_combat
                      /\ action' = NoAction
                      /\ pc' = "navigation"
             /\ (pc \in {"navigation", "execute"} /\ pc' = "loop_head"
                      /\ selected_at = iter)
                   => /\ state'.current_target_id = None
                      /\ ~state'.in_combat
                      /\ source' # "combat"]_vars

\* the second tick in a row in which Farm selected the far weak_npc and Combat
\* cleared it, with a medium_npc in attack range
C38_Witness ==
    /\ pc = "navigation"
    /\ iter = 2
    /\ state.tick_counter = 3
    /\ selected_at = iter
    /\ Len(state.npcs) = 2
    /\ FarPick(1)
    /\ Dist2(state.ship.position, state.npcs[2].position)
          <= cfg.max_target_distance * cfg.max_target_distance
    /\ state.current_target_id = None
    /\ ~state.in_combat
    /\ action = NoAction

\* box collection is enabled and the GameState lists a resource
BoxesInSight == cfg.collect_boxes /\ state.resources # <<>>

\* C39: in a tick with collect_boxes enabled and a resource listed, Farm.decide,
\* when Safety lets it run, returns the resource MOVE, which is dispatched;
\* Combat.decide and Navigation.tick are not reached and no call of the tick
\* changes current_target_id, in_combat or the state at all before the tick
\* bookkeeping
C39_BoxesStarveCombat ==
    [][BoxesInSight =>
          /\ pc \notin {"combat", "navigation"}
          /\ pc = "execute" => source \in {"safety", "farm"}
          /\ (pc = "farm" /\ pc' # "finally")
                => /\ pc' = "execute"
                   /\ source' = "farm"
                   /\ action'.type = "MOVE"
                   /\ action'.meta.target_resource_id \in Ids(state.resources)
                   /\ state' = state
          /\ pc \in {"assess", "safety_decide", "farm", "execute"}
                => /\ state'.current_target_id = state.current_target_id
                   /\ state'.in_combat = state.in_combat]_vars

\* the box MOVE is dispatched in the third tick while the target selected in the
\* first tick stays held and in combat
C39_Witness ==
    /\ BoxesInSight
    /\ cfg.hunt_npcs
    /\ cfg.combat_enabled
    /\ pc = "execute"
    /\ source = "farm"
    /\ iter = 3
    /\ selected_at = 1
    /\ state.in_combat
    /\ state.ticks_with_current_target = 4
    /\ invoked = <<"vision", "safety.assess", "safety", "farm">>

====
